---- MODULE Spec2Model ----
(***************************************************************************)
(* A model of the Mad Pod Racing agent (src/mad-pod-racing-gold.ts).       *)
(*                                                                         *)
(* Numbers.  The program computes in IEEE doubles; the model computes in   *)
(* exact integer arithmetic.  The inputs are drawn from sets on which the  *)
(* two agree: every pod is axis-aligned with its target checkpoint, so     *)
(* Math.atan2 yields 0, 90, 180 or -90 degrees and the distance to the     *)
(* checkpoint is an integer.  Operators that would leave the integers      *)
(* (Sqrt, Atan2Deg) are partial: TLC stops with an error should an input   *)
(* outside that domain ever reach them.  Edge lengths of the checkpoint    *)
(* ring are compared by their squares, which orders them as their roots.   *)
(***************************************************************************)
EXTENDS Integers, Sequences, FiniteSets, TLC

VARIABLES pc, game, podData, myPod1, myPod2, opponentPod1,
          opponentPod2, myPod1Action, myPod2Action, io, boostEmitted,
          shieldEmitted

vars == <<pc, game, podData, myPod1, myPod2, opponentPod1,
          opponentPod2, myPod1Action, myPod2Action, io, boostEmitted,
          shieldEmitted>>

----------------------------------------------------------------------------
(* Constants of the program *)

MAX_BOOST_ANGLE_DEGREES == 15
MINIMUM_DRIFT_SPEED_UNITS == 100
DRIFT_INTENSITY_FACTOR == 4
TARGET_DISTANCE_FACTOR == 2
CHECKPOINT_RADIUS_UNITS == 600
COLLISION_RADIUS_UNITS == 400
CORRECTION_SPEED_THRESHOLD == 100
\* the thresholds of the shield policy of the earlier revision
\* (src/unnamed/part_003)
COLLISION_SPEED_THRESHOLD == 80
COLLISION_ANGLE_THRESHOLD == 75
\* FRICTION_FACTOR = 0.85 as the fraction FRICTION_NUM / FRICTION_DEN
FRICTION_NUM == 17
FRICTION_DEN == 20

----------------------------------------------------------------------------
(* Bounds of the model *)

\* the largest number of checkpoints of a course drawn for initializeGame
MaxCheckpoints == 3

----------------------------------------------------------------------------
(* Arithmetic of JavaScript numbers on the integers *)

Abs(n) == IF n < 0 THEN -n ELSE n

\* the % operator of JavaScript: the result takes the sign of the dividend
JsRem(a, m) == IF a >= 0 THEN a % m ELSE -((-a) % m)

RECURSIVE ISqrtIn(_, _, _)
\* the largest r in lo..hi with r * r <= n, by bisection
ISqrtIn(n, lo, hi) ==
    IF lo >= hi THEN lo
    ELSE LET mid == (lo + hi + 1) \div 2
         IN  IF mid * mid <= n THEN ISqrtIn(n, mid, hi)
                               ELSE ISqrtIn(n, lo, mid - 1)

\* floor of the square root; 46340 is the largest root of a 32-bit square
ISqrt(n) == ISqrtIn(n, 0, 46340)

\* Math.sqrt on the perfect squares (partial: no value elsewhere)
Sqrt(n) == CASE ISqrt(n) * ISqrt(n) = n -> ISqrt(n)

\* variant: the root is rounded up, Math.ceil(Math.sqrt(n))
RoundSqrt_Ceil(n) == IF ISqrt(n) * ISqrt(n) = n THEN ISqrt(n) ELSE ISqrt(n) + 1

\* Math.round(Math.sqrt(n)): floor(sqrt(n) + 1/2) = (floor(2 sqrt(n)) + 1) div 2
RoundSqrt(n) == (ISqrt(4 * n) + 1) \div 2

\* Math.round(num / den) for num >= 0, den > 0: halves round up
RoundDiv(num, den) == (2 * num + den) \div (2 * den)

\* Math.atan2(dy, dx) * 180 / Math.PI on the axis directions
Atan2Deg(dy, dx) ==
    CASE dy = 0 /\ dx >= 0 -> 0
      [] dy = 0 /\ dx < 0  -> 180
      [] dx = 0 /\ dy > 0  -> 90
      [] dx = 0 /\ dy < 0  -> -90

\* Math.cos and Math.sin of an angle of Atan2Deg (a multiple of 90 degrees)
CosDeg(a) ==
    CASE a = 0 -> 1
      [] a = 90 \/ a = -90 -> 0
      [] a = 180 \/ a = -180 -> -1

SinDeg(a) ==
    CASE a = 0 \/ a = 180 \/ a = -180 -> 0
      [] a = 90 -> 1
      [] a = -90 -> -1

----------------------------------------------------------------------------
(* Geometry *)

\* the square of distanceBetween
distanceBetweenSq(x1, y1, x2, y2) ==
    (x2 - x1) * (x2 - x1) + (y2 - y1) * (y2 - y1)

distanceBetween(x1, y1, x2, y2) == Sqrt(distanceBetweenSq(x1, y1, x2, y2))

\* variant: an angle below -180 is not brought back into the range
normalizeAngle_NoLowerWrap(a) ==
    LET angle == JsRem(a, 360)
    IN  IF angle > 180 THEN angle - 360 ELSE angle

normalizeAngle(a) ==
    LET angle == JsRem(a, 360)
    IN  IF angle > 180 THEN angle - 360
        ELSE IF angle < -180 THEN angle + 360
        ELSE angle

angleToCheckpoint(podX, podY, checkpointX, checkpointY, podDirection) ==
    LET deltaX == checkpointX - podX
        deltaY == checkpointY - podY
    IN  normalizeAngle(Atan2Deg(deltaY, deltaX) - podDirection)

----------------------------------------------------------------------------
(* Thrust values: number | string | undefined *)

Num(n) == [type |-> "number", num |-> n, str |-> ""]
Str(s) == [type |-> "string", num |-> 0, str |-> s]
Undefined == [type |-> "undefined", num |-> 0, str |-> ""]

----------------------------------------------------------------------------
(* Pod *)

initializePod ==
    [id |-> 0, posX |-> 0, posY |-> 0, speedX |-> 0, speedY |-> 0,
     prevSpeedX |-> 0, prevSpeedY |-> 0, speed |-> 0, angle |-> 0,
     nextCheckpointId |-> 0, nextCheckpointX |-> 0, nextCheckpointY |-> 0,
     distanceNextCheckpoint |-> 0, angleNextCheckpoint |-> 0,
     currentLap |-> 0, boostUsed |-> FALSE, shieldUsed |-> FALSE,
     isOpponent |-> FALSE, thrust |-> Undefined, isCorrecting |-> FALSE,
     targetX |-> 0, targetY |-> 0]

\* variant: the record is rebuilt from initializePod, not from the pod
updatePod_FromInitial(pod, id, posX, posY, speedX, speedY, angle, nextCheckpointId, nextCheckpointX, nextCheckpointY, isOpponent) ==
    [initializePod EXCEPT
       !.id = id,
       !.posX = posX,
       !.posY = posY,
       !.speedX = speedX,
       !.speedY = speedY,
       !.speed = RoundSqrt(speedX * speedX + speedY * speedY),
       !.angle = angle,
       !.nextCheckpointId = nextCheckpointId,
       !.nextCheckpointX = nextCheckpointX,
       !.nextCheckpointY = nextCheckpointY,
       !.distanceNextCheckpoint =
           distanceBetween(posX, posY, nextCheckpointX, nextCheckpointY),
       !.angleNextCheckpoint =
           angleToCheckpoint(posX, posY, nextCheckpointX, nextCheckpointY,
                             angle),
       !.isOpponent = isOpponent]

updatePod(pod, id, posX, posY, speedX, speedY, angle, nextCheckpointId, nextCheckpointX, nextCheckpointY, isOpponent) ==
    [pod EXCEPT
       !.id = id,
       !.posX = posX,
       !.posY = posY,
       !.speedX = speedX,
       !.speedY = speedY,
       !.speed = RoundSqrt(speedX * speedX + speedY * speedY),
       !.angle = angle,
       !.nextCheckpointId = nextCheckpointId,
       !.nextCheckpointX = nextCheckpointX,
       !.nextCheckpointY = nextCheckpointY,
       !.distanceNextCheckpoint =
           distanceBetween(posX, posY, nextCheckpointX, nextCheckpointY),
       !.angleNextCheckpoint =
           angleToCheckpoint(posX, posY, nextCheckpointX, nextCheckpointY,
                             angle),
       !.isOpponent = isOpponent]

----------------------------------------------------------------------------
(* Game *)

\* the game before initializeGame has run
NoGame == [laps |-> 0, checkpointCount |-> 0, checkpoints |-> <<>>,
           optimalBoostCheckpointId |-> 0]

\* Math.max(...distances) of a non-empty array indexed 0..n-1
MaxOf(distances) ==
    CHOOSE m \in {distances[i] : i \in DOMAIN distances} :
        \A i \in DOMAIN distances : distances[i] <= m

\* distances.indexOf(value): the first index holding the value
IndexOf(distances, value) ==
    CHOOSE i \in DOMAIN distances :
        /\ distances[i] = value
        /\ \A j \in DOMAIN distances : distances[j] = value => i <= j

\* variant: lastIndexOf in place of indexOf
findOptimalBoostCheckpoint_LastIndex(checkpoints, checkpointCount) ==
    LET distances ==
            [i \in DOMAIN checkpoints |->
                distanceBetweenSq(checkpoints[i][1], checkpoints[i][2],
                                  checkpoints[(i + 1) % checkpointCount][1],
                                  checkpoints[(i + 1) % checkpointCount][2])]
        m == MaxOf(distances)
        last == CHOOSE i \in DOMAIN distances :
                    /\ distances[i] = m
                    /\ \A j \in DOMAIN distances : distances[j] = m => j <= i
    IN  (last + 1) % checkpointCount

\* variant: the index of the longest edge itself, without the step to its end
findOptimalBoostCheckpoint_NoStep(checkpoints, checkpointCount) ==
    LET distances ==
            [i \in DOMAIN checkpoints |->
                distanceBetweenSq(checkpoints[i][1], checkpoints[i][2],
                                  checkpoints[(i + 1) % checkpointCount][1],
                                  checkpoints[(i + 1) % checkpointCount][2])]
    IN  IndexOf(distances, MaxOf(distances))

\* variant: the closing edge N-1 -> 0 is left out of the maximum
findOptimalBoostCheckpoint_NoClosingEdge(checkpoints, checkpointCount) ==
    LET distances ==
            [i \in DOMAIN checkpoints |->
                IF i = checkpointCount - 1 /\ checkpointCount > 1 THEN 0
                ELSE distanceBetweenSq(
                         checkpoints[i][1], checkpoints[i][2],
                         checkpoints[(i + 1) % checkpointCount][1],
                         checkpoints[(i + 1) % checkpointCount][2])]
        maxDistanceIndex == IndexOf(distances, MaxOf(distances))
    IN  (maxDistanceIndex + 1) % checkpointCount

findOptimalBoostCheckpoint(checkpoints, checkpointCount) ==
    LET distances ==
            [i \in DOMAIN checkpoints |->
                distanceBetweenSq(checkpoints[i][1], checkpoints[i][2],
                                  checkpoints[(i + 1) % checkpointCount][1],
                                  checkpoints[(i + 1) % checkpointCount][2])]
        maxDistanceIndex == IndexOf(distances, MaxOf(distances))
    IN  (maxDistanceIndex + 1) % checkpointCount

\* the checkpoints object built from the lines read: keys 0..checkpointCount-1
initializeCheckpoints(lines) == [i \in 0..(Len(lines) - 1) |-> lines[i + 1]]

\* the game built from the input block: laps, then the checkpoint lines
MakeGame(laps, lines) ==
    LET checkpointCount == Len(lines)
        checkpoints == initializeCheckpoints(lines)
    IN  [laps |-> laps, checkpointCount |-> checkpointCount,
         checkpoints |-> checkpoints,
         optimalBoostCheckpointId |->
             findOptimalBoostCheckpoint(checkpoints, checkpointCount)]

----------------------------------------------------------------------------
(* Collision *)

getCollisionAngle(pod1, pod2) ==
    LET dx == pod2.posX - pod1.posX
        dy == pod2.posY - pod1.posY
    IN  Atan2Deg(dy, dx)

rotateVector(vector, angle) ==
    [x |-> vector.x * CosDeg(angle) - vector.y * SinDeg(angle),
     y |-> vector.x * SinDeg(angle) + vector.y * CosDeg(angle)]

\* variant: the two velocities are exchanged whole, as for a head-on impact
updateVelocityAfterCollisionWithAngle_SwapBoth(pod1, pod2) ==
    [pod1 |-> [pod1 EXCEPT !.speedX = pod2.speedX, !.speedY = pod2.speedY],
     pod2 |-> [pod2 EXCEPT !.speedX = pod1.speedX, !.speedY = pod1.speedY]]

\* the two pods after the call, which writes speedX and speedY of both
updateVelocityAfterCollisionWithAngle(pod1, pod2) ==
    LET angle == getCollisionAngle(pod1, pod2)
        pod1Velocity == [x |-> pod1.speedX, y |-> pod1.speedY]
        pod2Velocity == [x |-> pod2.speedX, y |-> pod2.speedY]
        u1 == rotateVector(pod1Velocity, -angle)
        u2 == rotateVector(pod2Velocity, -angle)
        v1x == u2.x
        v2x == u1.x
        v1 == rotateVector([x |-> v1x, y |-> u1.y], angle)
        v2 == rotateVector([x |-> v2x, y |-> u2.y], angle)
    IN  [pod1 |-> [pod1 EXCEPT !.speedX = v1.x, !.speedY = v1.y],
         pod2 |-> [pod2 EXCEPT !.speedX = v2.x, !.speedY = v2.y]]

\* the two pods after the call and the future positions it returns
ellasticCollision(myPod, otherPod) ==
    LET r == updateVelocityAfterCollisionWithAngle(myPod, otherPod)
    IN  [myPod |-> r.pod1, otherPod |-> r.pod2,
         result |-> <<[x |-> r.pod1.posX + r.pod1.speedX,
                       y |-> r.pod1.posY + r.pod1.speedY],
                      [x |-> r.pod2.posX + r.pod2.speedX,
                       y |-> r.pod2.posY + r.pod2.speedY]>>]

\* variant: the boundary distance is left out (distance < radius * 2)
detectCollision_Strict(myPod, otherPod) ==
    LET dX == FRICTION_DEN * (otherPod.posX - myPod.posX)
              + FRICTION_NUM * (otherPod.speedX - myPod.speedX)
        dY == FRICTION_DEN * (otherPod.posY - myPod.posY)
              + FRICTION_NUM * (otherPod.speedY - myPod.speedY)
        bound == FRICTION_DEN * COLLISION_RADIUS_UNITS * 2
    IN  IF Abs(dX) >= bound \/ Abs(dY) >= bound THEN FALSE
        ELSE dX * dX + dY * dY < bound * bound

\* distance <= COLLISION_RADIUS_UNITS * 2 between the projected positions,
\* pos + speed * FRICTION_FACTOR, with both sides scaled by FRICTION_DEN;
\* a coordinate difference beyond the bound decides without squaring
detectCollision(myPod, otherPod) ==
    LET dX == FRICTION_DEN * (otherPod.posX - myPod.posX)
              + FRICTION_NUM * (otherPod.speedX - myPod.speedX)
        dY == FRICTION_DEN * (otherPod.posY - myPod.posY)
              + FRICTION_NUM * (otherPod.speedY - myPod.speedY)
        bound == FRICTION_DEN * COLLISION_RADIUS_UNITS * 2
    IN  IF Abs(dX) > bound \/ Abs(dY) > bound THEN FALSE
        ELSE dX * dX + dY * dY <= bound * bound

----------------------------------------------------------------------------
(* Controls *)

\* variant: the boostUsed flag is not consulted
calculateThrust_IgnoreBoostUsed(pod, g) ==
    IF /\ Abs(pod.angleNextCheckpoint) < MAX_BOOST_ANGLE_DEGREES
       /\ pod.nextCheckpointId = g.optimalBoostCheckpointId
    THEN [pod |-> [pod EXCEPT !.boostUsed = TRUE], result |-> Str("BOOST")]
    ELSE LET brakingDistance == TARGET_DISTANCE_FACTOR * CHECKPOINT_RADIUS_UNITS
             a == Abs(pod.angleNextCheckpoint)
             num1 == IF a < 90 THEN 100 * (90 - a) ELSE 100 * 90
             num2 == IF pod.distanceNextCheckpoint < brakingDistance
                     THEN num1 * pod.distanceNextCheckpoint
                     ELSE num1 * brakingDistance
         IN  [pod |-> pod,
              result |-> Num(RoundDiv(num2, 90 * brakingDistance))]

\* variant: no braking near the checkpoint
calculateThrust_NoBraking(pod, g) ==
    IF /\ Abs(pod.angleNextCheckpoint) < MAX_BOOST_ANGLE_DEGREES
       /\ pod.nextCheckpointId = g.optimalBoostCheckpointId
       /\ ~pod.boostUsed
    THEN [pod |-> [pod EXCEPT !.boostUsed = TRUE], result |-> Str("BOOST")]
    ELSE LET a == Abs(pod.angleNextCheckpoint)
             num1 == IF a < 90 THEN 100 * (90 - a) ELSE 100 * 90
         IN  [pod |-> pod, result |-> Num(RoundDiv(num1, 90))]

\* variant: the bearing attenuation is applied at every bearing
calculateThrust_NoAngleGuard(pod, g) ==
    IF /\ Abs(pod.angleNextCheckpoint) < MAX_BOOST_ANGLE_DEGREES
       /\ pod.nextCheckpointId = g.optimalBoostCheckpointId
       /\ ~pod.boostUsed
    THEN [pod |-> [pod EXCEPT !.boostUsed = TRUE], result |-> Str("BOOST")]
    ELSE LET brakingDistance == TARGET_DISTANCE_FACTOR * CHECKPOINT_RADIUS_UNITS
             a == Abs(pod.angleNextCheckpoint)
             num1 == 100 * (90 - a)
             num2 == IF pod.distanceNextCheckpoint < brakingDistance
                     THEN num1 * pod.distanceNextCheckpoint
                     ELSE num1 * brakingDistance
         IN  [pod |-> pod,
              result |-> [type |-> "number", str |-> "",
                          num |-> IF num2 >= 0
                                  THEN RoundDiv(num2, 90 * brakingDistance)
                                  ELSE -RoundDiv(-num2, 90 * brakingDistance)]]

\* the pod after the call (boostUsed may be written) and the value returned;
\* the thrust is the fraction num / den until Math.round
calculateThrust(pod, g) ==
    IF /\ Abs(pod.angleNextCheckpoint) < MAX_BOOST_ANGLE_DEGREES
       /\ pod.nextCheckpointId = g.optimalBoostCheckpointId
       /\ ~pod.boostUsed
    THEN [pod |-> [pod EXCEPT !.boostUsed = TRUE], result |-> Str("BOOST")]
    ELSE LET brakingDistance == TARGET_DISTANCE_FACTOR * CHECKPOINT_RADIUS_UNITS
             a == Abs(pod.angleNextCheckpoint)
             \* thrust = 100 * (1 - a / 90) = num1 / 90
             num1 == IF a < 90 THEN 100 * (90 - a) ELSE 100 * 90
             \* thrust *= distanceNextCheckpoint / brakingDistance
             num2 == IF pod.distanceNextCheckpoint < brakingDistance
                     THEN num1 * pod.distanceNextCheckpoint
                     ELSE num1 * brakingDistance
         IN  [pod |-> pod,
              result |-> Num(RoundDiv(num2, 90 * brakingDistance))]

\* variant: a SHIELD of the tick before stays the command
nextAction_Thrust_KeepShield(pod, g) ==
    LET t == calculateThrust(pod, g)
    IN  [t.pod EXCEPT
           !.thrust = IF pod.thrust = Str("SHIELD") THEN pod.thrust
                      ELSE t.result,
           !.isCorrecting =
               IF t.pod.isCorrecting
                  /\ t.pod.speed >= CORRECTION_SPEED_THRESHOLD
               THEN FALSE ELSE @]

\* pod.thrust = calculateThrust(pod, game), then the end of a correction
nextAction_Thrust(pod, g) ==
    LET t == calculateThrust(pod, g)
    IN  [t.pod EXCEPT
           !.thrust = t.result,
           !.isCorrecting =
               IF t.pod.isCorrecting
                  /\ t.pod.speed >= CORRECTION_SPEED_THRESHOLD
               THEN FALSE ELSE @]

\* variant: SHIELD is commanded but shieldUsed is not set
nextAction_Collision_NoFlag(pod, opponentPod) ==
    IF detectCollision(pod, opponentPod)
    THEN LET e == ellasticCollision(pod, opponentPod)
         IN  [pod |-> [e.myPod EXCEPT !.thrust = Str("SHIELD")],
              opponentPod |-> e.otherPod]
    ELSE [pod |-> pod, opponentPod |-> opponentPod]

\* variant: the collision is resolved but no shield is raised
nextAction_Collision_NoShield(pod, opponentPod) ==
    IF detectCollision(pod, opponentPod)
    THEN LET e == ellasticCollision(pod, opponentPod)
         IN  [pod |-> e.myPod, opponentPod |-> e.otherPod]
    ELSE [pod |-> pod, opponentPod |-> opponentPod]

\* a predicted collision with one opponent: both velocities are rewritten by
\* ellasticCollision, the command becomes SHIELD and shieldUsed is set
nextAction_Collision(pod, opponentPod) ==
    IF detectCollision(pod, opponentPod)
    THEN LET e == ellasticCollision(pod, opponentPod)
         IN  [pod |-> [e.myPod EXCEPT !.thrust = Str("SHIELD"),
                                      !.shieldUsed = TRUE],
              opponentPod |-> e.otherPod]
    ELSE [pod |-> pod, opponentPod |-> opponentPod]

\* variant: a predicted collision with the other owned pod raises the shield
nextAction_Ally_Shield(pod, myOtherPod) ==
    IF detectCollision(pod, myOtherPod)
    THEN [pod EXCEPT !.thrust = Str("SHIELD"), !.shieldUsed = TRUE]
    ELSE pod

\* a predicted collision with the other owned pod is logged, nothing more
nextAction_Ally(pod, myOtherPod) ==
    IF detectCollision(pod, myOtherPod) THEN pod ELSE pod

\* variant: the drift is taken from the velocity of the tick before
nextAction_Target_PrevSpeed(pod) ==
    IF pod.speed > MINIMUM_DRIFT_SPEED_UNITS
    THEN [pod EXCEPT
            !.targetX = pod.nextCheckpointX
                        - DRIFT_INTENSITY_FACTOR * pod.prevSpeedX,
            !.targetY = pod.nextCheckpointY
                        - DRIFT_INTENSITY_FACTOR * pod.prevSpeedY]
    ELSE [pod EXCEPT !.targetX = pod.nextCheckpointX,
                     !.targetY = pod.nextCheckpointY]

\* target correction: the checkpoint, less the drift above the minimum speed
nextAction_Target(pod) ==
    IF pod.speed > MINIMUM_DRIFT_SPEED_UNITS
    THEN [pod EXCEPT
            !.targetX = pod.nextCheckpointX
                        - DRIFT_INTENSITY_FACTOR * pod.speedX,
            !.targetY = pod.nextCheckpointY
                        - DRIFT_INTENSITY_FACTOR * pod.speedY]
    ELSE [pod EXCEPT !.targetX = pod.nextCheckpointX,
                     !.targetY = pod.nextCheckpointY]

\* the pod is passing its checkpoint: aim for the next one;
\* distanceNextCheckpoint < distanceTargetToCheckpoint is decided on squares
nextAction_Passing(pod, g) ==
    LET distanceTargetToCheckpointSq ==
            distanceBetweenSq(pod.targetX, pod.targetY,
                              pod.nextCheckpointX, pod.nextCheckpointY)
        nextCheckpointId == (pod.nextCheckpointId + 1) % g.checkpointCount
    IN  IF pod.distanceNextCheckpoint * pod.distanceNextCheckpoint
           < distanceTargetToCheckpointSq
        THEN [pod EXCEPT !.targetX = g.checkpoints[nextCheckpointId][1],
                         !.targetY = g.checkpoints[nextCheckpointId][2]]
        ELSE pod

\* the pod and the two opponents after the call, and the action returned;
\* each stage is bound once (p1, c1, c2, p), as a statement sequence is;
\* Math.round leaves the integers of the model as they are
nextAction(pod, myOtherPod, opponentPod1_, opponentPod2_, g) ==
    CHOOSE r \in
      UNION { UNION { UNION {
        { [pod |-> p,
           opponentPod1 |-> c1.opponentPod,
           opponentPod2 |-> c2.opponentPod,
           action |-> [thrust |-> p.thrust,
                       targetX |-> p.targetX, targetY |-> p.targetY]]
          : p \in {nextAction_Passing(
                      nextAction_Target(nextAction_Ally(c2.pod, myOtherPod)),
                      g)} }
          : c2 \in {nextAction_Collision(c1.pod, opponentPod2_)} }
          : c1 \in {nextAction_Collision(p1, opponentPod1_)} }
          : p1 \in {nextAction_Thrust(pod, g)} } : TRUE

----------------------------------------------------------------------------
(* Inputs: courses *)

\* the checkpoint positions a course of the initializeGame check is made of
CoursePoints == {<<0, 0>>, <<10000, 0>>, <<10000, 5000>>, <<3000, 4000>>,
                 <<0, 5000>>}

RECURSIVE SeqsOf(_, _)
\* the sequences over S of length exactly n
SeqsOf(S, n) ==
    IF n = 0 THEN {<<>>}
    ELSE {Append(s, x) : s \in SeqsOf(S, n - 1), x \in S}

\* every ring of 1..MaxCheckpoints checkpoints over CoursePoints
AllCourses == UNION {SeqsOf(CoursePoints, n) : n \in 1..MaxCheckpoints}

----------------------------------------------------------------------------
(* Inputs: telemetry *)

\* one line of telemetry as updatePodData stores it
Tele(x, y, vx, vy, angle, nextCheckPointId) ==
    [x |-> x, y |-> y, vx |-> vx, vy |-> vy, angle |-> angle,
     nextCheckpointId |-> nextCheckPointId]

\* the course of a match
MatchCourse == <<<<1000, 0>>, <<5000, 0>>, <<5000, 3000>>>>
MatchCourses == {MatchCourse}

\* the lines a tick of the match can bring, pod by pod
MyPod1Telemetry ==
    {Tele(0, 0, 0, 0, 0, 0), Tele(0, 0, 200, 0, 0, 0),
     Tele(4600, 0, 300, 0, 0, 1), Tele(5000, 0, 0, 100, 90, 2)}

MyPod2Telemetry ==
    {Tele(5000, 600, 0, -150, 270, 1), Tele(5000, 3000, 0, 0, 270, 2),
     Tele(1000, 2500, 0, -100, 270, 0)}

OpponentPod1Telemetry ==
    {Tele(700, 0, -200, 0, 180, 0), Tele(13000, 0, 0, 0, 180, 1)}

OpponentPod2Telemetry == {Tele(5000, 1300, 0, -200, 270, 1)}

\* the courses and the lines of the checks of one call
CallCourses == {MatchCourse, <<<<1000, 0>>, <<9000, 0>>, <<5000, 0>>>>}
CallXs == {0, 1, 400, 994, 1000, 2199, 2200, 5000, 9000}
CallYs == {0, 600, 3000, 4500}
CallHeadings == 0..359

\* a pod is on a horizontal or vertical line with its target checkpoint
AxisAligned(t, g) ==
    \/ t.x = g.checkpoints[t.nextCheckpointId][1]
    \/ t.y = g.checkpoints[t.nextCheckpointId][2]

CallTelemetry(g) ==
    {t \in [x : CallXs, y : CallYs, vx : {0}, vy : {0},
            angle : CallHeadings,
            nextCheckpointId : 0..(g.checkpointCount - 1)] :
        AxisAligned(t, g)}

\* the lines of the checks of one decision, on the course of the match
ActionPoints == {<<0, 0>>, <<400, 0>>, <<1000, 0>>, <<4600, 0>>,
                 <<5000, 600>>, <<5000, 3000>>, <<9000, 0>>}
ActionHeadings == {0, 10, 15, 90, 180, 270}

ActionTelemetry(g) ==
    {t \in [x : {q[1] : q \in ActionPoints}, y : {q[2] : q \in ActionPoints},
            vx : {0, 100, 200}, vy : {0, 5}, angle : ActionHeadings,
            nextCheckpointId : 0..(g.checkpointCount - 1)] :
        <<t.x, t.y>> \in ActionPoints /\ AxisAligned(t, g)}

ActionOpponentPod1Telemetry == OpponentPod1Telemetry

ActionOpponentPod2Telemetry ==
    OpponentPod2Telemetry \cup {Tele(13000, 0, 0, 0, 180, 1)}

----------------------------------------------------------------------------
(* The state after construction: main() before initializeGame *)

initializePodDataStructure ==
    [myPod1 |-> Tele(0, 0, 0, 0, 0, 0), myPod2 |-> Tele(0, 0, 0, 0, 0, 0),
     opponentPod1 |-> Tele(0, 0, 0, 0, 0, 0),
     opponentPod2 |-> Tele(0, 0, 0, 0, 0, 0)]

NoAction == [thrust |-> Undefined, targetX |-> 0, targetY |-> 0]

Init ==
    /\ pc = "init"
    /\ game = NoGame
    /\ podData = initializePodDataStructure
    /\ myPod1 = initializePod
    /\ myPod2 = initializePod
    /\ opponentPod1 = initializePod
    /\ opponentPod2 = initializePod
    /\ myPod1Action = NoAction
    /\ myPod2Action = NoAction
    /\ io = <<>>
    /\ boostEmitted = [i \in 1..2 |-> 0]
    /\ shieldEmitted = [i \in 1..2 |-> FALSE]

----------------------------------------------------------------------------
(* main *)

\* initializeGame over the courses of the set given
InitializeGameFrom(courses) ==
    /\ pc = "init"
    /\ \E lines \in courses : game' = MakeGame(3, lines)
    /\ pc' = "input"
    /\ UNCHANGED <<podData, myPod1, myPod2, opponentPod1, opponentPod2,
                   myPod1Action, myPod2Action, io, boostEmitted, shieldEmitted>>

InitializeMatch == InitializeGameFrom(MatchCourses)

ReadLine(t) == [op |-> "readline", line |-> t]
LogLine(action) == [op |-> "console.log", line |-> action]

\* prevSpeed := speed, then updatePod with the line of the pod
Updated(pod, id, t, isOpponent) ==
    updatePod([pod EXCEPT !.prevSpeedX = pod.speedX,
                          !.prevSpeedY = pod.speedY],
              id, t.x, t.y, t.vx, t.vy, t.angle, t.nextCheckpointId,
              game.checkpoints[t.nextCheckpointId][1],
              game.checkpoints[t.nextCheckpointId][2], isOpponent)

\* the head of an iteration of the loop: getInput reads the four lines of the
\* tick, own pods first, then the four pods are updated; io restarts with
\* the iteration
GetInput ==
    /\ pc = "input"
    /\ \E t1 \in MyPod1Telemetry, t2 \in MyPod2Telemetry,
          t3 \in OpponentPod1Telemetry, t4 \in OpponentPod2Telemetry :
          /\ podData' = [myPod1 |-> t1, myPod2 |-> t2,
                         opponentPod1 |-> t3, opponentPod2 |-> t4]
          /\ io' = <<ReadLine(t1), ReadLine(t2), ReadLine(t3), ReadLine(t4)>>
          /\ myPod1' = Updated(myPod1, 1, t1, FALSE)
          /\ myPod2' = Updated(myPod2, 2, t2, FALSE)
          /\ opponentPod1' = Updated(opponentPod1, 1, t3, TRUE)
          /\ opponentPod2' = Updated(opponentPod2, 2, t4, TRUE)
    /\ pc' = "action1"
    /\ UNCHANGED <<game, myPod1Action, myPod2Action, boostEmitted, shieldEmitted>>

NextAction1 ==
    /\ pc = "action1"
    /\ \E r \in {nextAction(myPod1, myPod2, opponentPod1, opponentPod2,
                            game)} :
           /\ myPod1' = r.pod
           /\ opponentPod1' = r.opponentPod1
           /\ opponentPod2' = r.opponentPod2
           /\ myPod1Action' = r.action
    /\ pc' = "action2"
    /\ UNCHANGED <<game, podData, myPod2, myPod2Action, io,
                   boostEmitted, shieldEmitted>>

NextAction2 ==
    /\ pc = "action2"
    /\ \E r \in {nextAction(myPod2, myPod1, opponentPod1, opponentPod2,
                            game)} :
           /\ myPod2' = r.pod
           /\ opponentPod1' = r.opponentPod1
           /\ opponentPod2' = r.opponentPod2
           /\ myPod2Action' = r.action
    /\ pc' = "log1"
    /\ UNCHANGED <<game, podData, myPod1, myPod1Action, io,
                   boostEmitted, shieldEmitted>>

\* the ticks in which BOOST was written for pod i, counted
Emitted(i, action) ==
    IF action.thrust = Str("BOOST")
    THEN [boostEmitted EXCEPT ![i] = @ + 1]
    ELSE boostEmitted

\* whether SHIELD has been written for pod i, in this tick or an earlier one
ShieldEmitted(i, action) ==
    IF action.thrust = Str("SHIELD")
    THEN [shieldEmitted EXCEPT ![i] = TRUE]
    ELSE shieldEmitted

\* variant: the line of pod 2 is written first
Log1_OtherPod ==
    /\ pc = "log1"
    /\ io' = Append(io, LogLine(myPod2Action))
    /\ boostEmitted' = Emitted(1, myPod2Action)
    /\ shieldEmitted' = ShieldEmitted(1, myPod2Action)
    /\ pc' = "log2"
    /\ UNCHANGED <<game, podData, myPod1, myPod2, opponentPod1,
                   opponentPod2, myPod1Action, myPod2Action>>

Log1 ==
    /\ pc = "log1"
    /\ io' = Append(io, LogLine(myPod1Action))
    /\ boostEmitted' = Emitted(1, myPod1Action)
    /\ shieldEmitted' = ShieldEmitted(1, myPod1Action)
    /\ pc' = "log2"
    /\ UNCHANGED <<game, podData, myPod1, myPod2, opponentPod1,
                   opponentPod2, myPod1Action, myPod2Action>>

Log2 ==
    /\ pc = "log2"
    /\ io' = Append(io, LogLine(myPod2Action))
    /\ boostEmitted' = Emitted(2, myPod2Action)
    /\ shieldEmitted' = ShieldEmitted(2, myPod2Action)
    /\ pc' = "input"
    /\ UNCHANGED <<game, podData, myPod1, myPod2, opponentPod1,
                   opponentPod2, myPod1Action, myPod2Action>>

Next ==
    \/ InitializeMatch
    \/ GetInput
    \/ NextAction1
    \/ NextAction2
    \/ Log1
    \/ Log2

Spec == Init /\ [][Next]_vars

----------------------------------------------------------------------------
(* initializeGame alone, over every course *)

InitializeGame == InitializeGameFrom(AllCourses)

NextGame == InitializeGame

SpecGame == Init /\ [][NextGame]_vars

----------------------------------------------------------------------------
(* calculateThrust alone: one call on a pod that updatePod has filled *)

InitThrust ==
    /\ pc = "thrust"
    /\ \E lines \in CallCourses : game = MakeGame(3, lines)
    /\ \E t \in CallTelemetry(game), b \in BOOLEAN :
          /\ podData = [initializePodDataStructure EXCEPT !.myPod1 = t]
          /\ myPod1 = updatePod([initializePod EXCEPT !.boostUsed = b],
                                1, t.x, t.y, t.vx, t.vy, t.angle,
                                t.nextCheckpointId,
                                game.checkpoints[t.nextCheckpointId][1],
                                game.checkpoints[t.nextCheckpointId][2],
                                FALSE)
    /\ myPod2 = initializePod
    /\ opponentPod1 = initializePod
    /\ opponentPod2 = initializePod
    /\ myPod1Action = NoAction
    /\ myPod2Action = NoAction
    /\ io = <<>>
    /\ boostEmitted = [i \in 1..2 |-> 0]
    /\ shieldEmitted = [i \in 1..2 |-> FALSE]

\* pod.thrust = calculateThrust(pod, game)
CalculateThrust ==
    /\ pc = "thrust"
    /\ LET t == calculateThrust(myPod1, game)
       IN  myPod1' = [t.pod EXCEPT !.thrust = t.result]
    /\ pc' = "thrustDone"
    /\ UNCHANGED <<game, podData, myPod2, opponentPod1, opponentPod2,
                   myPod1Action, myPod2Action, io, boostEmitted, shieldEmitted>>

NextThrust == CalculateThrust

SpecThrust == InitThrust /\ [][NextThrust]_vars

----------------------------------------------------------------------------
(* One decision phase: both nextAction calls and the two lines, from every
   state the update of a tick can leave *)

\* a pod as updatePod leaves it, with the flags carried from earlier ticks
PodOf(t, id, boostUsed, shieldUsed, isOpponent, g) ==
    updatePod([initializePod EXCEPT !.boostUsed = boostUsed,
                                    !.shieldUsed = shieldUsed],
              id, t.x, t.y, t.vx, t.vy, t.angle, t.nextCheckpointId,
              g.checkpoints[t.nextCheckpointId][1],
              g.checkpoints[t.nextCheckpointId][2], isOpponent)

InitAction ==
    /\ pc = "action1"
    /\ game = MakeGame(3, MatchCourse)
    /\ \E t1 \in ActionTelemetry(game), t2 \in MyPod2Telemetry,
          t3 \in ActionOpponentPod1Telemetry,
          t4 \in ActionOpponentPod2Telemetry, b \in BOOLEAN :
          /\ podData = [myPod1 |-> t1, myPod2 |-> t2,
                        opponentPod1 |-> t3, opponentPod2 |-> t4]
          /\ io = <<ReadLine(t1), ReadLine(t2), ReadLine(t3), ReadLine(t4)>>
          /\ myPod1 = PodOf(t1, 1, b, b, FALSE, game)
          /\ myPod2 = PodOf(t2, 2, b, b, FALSE, game)
          /\ opponentPod1 = PodOf(t3, 1, FALSE, FALSE, TRUE, game)
          /\ opponentPod2 = PodOf(t4, 2, FALSE, FALSE, TRUE, game)
    /\ myPod1Action = NoAction
    /\ myPod2Action = NoAction
    /\ boostEmitted = [i \in 1..2 |-> 0]
    /\ shieldEmitted = [i \in 1..2 |-> myPod1.shieldUsed]

NextDecision ==
    \/ NextAction1
    \/ NextAction2
    \/ Log1
    \/ Log2

SpecAction == InitAction /\ [][NextDecision]_vars

----------------------------------------------------------------------------
(* updateVelocityAfterCollisionWithAngle alone: one call on two pods whose
   centres lie on a horizontal or a vertical line *)

\* where the two pods are: on the line y = 0 or on the line x = 1000, both
\* through checkpoint 0 of the course of the match
CollisionPoints == {<<0, 0>>, <<700, 0>>, <<800, 0>>, <<1000, 1800>>,
                    <<1000, 2500>>}
CollisionSpeeds == {-200, 0, 5, 200}

CollisionTelemetry ==
    {t \in [x : {q[1] : q \in CollisionPoints},
            y : {q[2] : q \in CollisionPoints},
            vx : CollisionSpeeds, vy : CollisionSpeeds,
            angle : {0}, nextCheckpointId : {0}] :
        <<t.x, t.y>> \in CollisionPoints}

InitCollision ==
    /\ pc = "collision"
    /\ game = MakeGame(3, MatchCourse)
    /\ \E t1 \in CollisionTelemetry, t3 \in CollisionTelemetry :
          /\ <<t1.x, t1.y>> # <<t3.x, t3.y>>
          /\ t1.x = t3.x \/ t1.y = t3.y
          /\ podData = [initializePodDataStructure EXCEPT
                           !.myPod1 = t1, !.opponentPod1 = t3]
          /\ myPod1 = PodOf(t1, 1, FALSE, FALSE, FALSE, game)
          /\ opponentPod1 = PodOf(t3, 1, FALSE, FALSE, TRUE, game)
    /\ myPod2 = initializePod
    /\ opponentPod2 = initializePod
    /\ myPod1Action = NoAction
    /\ myPod2Action = NoAction
    /\ io = <<>>
    /\ boostEmitted = [i \in 1..2 |-> 0]
    /\ shieldEmitted = [i \in 1..2 |-> FALSE]

\* updateVelocityAfterCollisionWithAngle(myPod, otherPod)
ResolveCollision ==
    /\ pc = "collision"
    /\ LET r == updateVelocityAfterCollisionWithAngle(myPod1, opponentPod1)
       IN  /\ myPod1' = r.pod1
           /\ opponentPod1' = r.pod2
    /\ pc' = "collisionDone"
    /\ UNCHANGED <<game, podData, myPod2, opponentPod2, myPod1Action,
                   myPod2Action, io, boostEmitted, shieldEmitted>>

\* detectCollision(myPod, otherPod): the value returned is kept in pc; the
\* function assigns to no field of either pod
DetectCollision ==
    /\ pc = "collision"
    /\ pc' = IF detectCollision(myPod1, opponentPod1) THEN "collides"
                                                      ELSE "apart"
    /\ UNCHANGED <<game, podData, myPod1, myPod2, opponentPod1,
                   opponentPod2, myPod1Action, myPod2Action, io,
                   boostEmitted, shieldEmitted>>

NextCollision ==
    \/ ResolveCollision
    \/ DetectCollision

SpecCollision == InitCollision /\ [][NextCollision]_vars

----------------------------------------------------------------------------
(* The match: claims C1, C3 (Spec) *)

\* C1: over any sequence of ticks, whatever the telemetry, BOOST is written
\* for an owned pod in at most one tick of the match.
C1_BoostAtMostOnce == \A i \in 1..2 : boostEmitted[i] <= 1

\* pod 1 meets the bearing and checkpoint conditions of a boost again, in a
\* tick after the one its BOOST was written in, and gets a number
C1_Witness ==
    /\ pc = "log1"
    /\ boostEmitted[1] = 1
    /\ myPod1.boostUsed
    /\ Abs(myPod1.angleNextCheckpoint) < 15
    /\ myPod1.nextCheckpointId = game.optimalBoostCheckpointId
    /\ myPod1Action.thrust.type = "number"

\* the io of an iteration that has written both lines: the four lines read,
\* then the command of pod 1, then the command of pod 2
IterationComplete ==
    /\ Len(io) = 6
    /\ \A k \in 1..4 : io[k].op = "readline"
    /\ io[5] = [op |-> "console.log",
                line |-> [thrust |-> myPod1.thrust,
                          targetX |-> myPod1.targetX,
                          targetY |-> myPod1.targetY]]
    /\ io[6] = [op |-> "console.log",
                line |-> [thrust |-> myPod2.thrust,
                          targetX |-> myPod2.targetX,
                          targetY |-> myPod2.targetY]]

\* C3: in every iteration of the main loop, after the four telemetry lines
\* of the tick are read, exactly two lines are written before any telemetry
\* of the next tick is read: the command of pod 1, then that of pod 2.
C3_TwoLinesPerTick ==
    /\ [](Len(io) <= 6)
    /\ [](\A k \in 1..Len(io) :
              io[k].op = IF k <= 4 THEN "readline" ELSE "console.log")
    /\ [][ (io' # io /\ io'[Len(io')].op = "readline")
             => (io = <<>> \/ IterationComplete) ]_vars
    /\ [][ (io' # io /\ io'[Len(io')].op = "console.log")
             => (Len(io) >= 4 /\ io' = Append(io, io'[Len(io')])) ]_vars

\* the loop is back at getInput with two different lines written
C3_Witness ==
    /\ pc = "input"
    /\ IterationComplete
    /\ io[5].line # io[6].line

----------------------------------------------------------------------------
(* calculateThrust: claims C4, C5, C6, C7 (SpecThrust) *)

\* the three conditions of a boost, on the pod handed to calculateThrust
BoostEligible(pod) ==
    /\ Abs(pod.angleNextCheckpoint) < 15
    /\ pod.nextCheckpointId = game.optimalBoostCheckpointId
    /\ pod.boostUsed = FALSE

\* n = Math.round(num / den): n - 1/2 <= num / den < n + 1/2
IsRounded(n, num, den) ==
    /\ 2 * n * den - den <= 2 * num
    /\ 2 * num < 2 * n * den + den

\* C4: calculateThrust returns BOOST if and only if |angleNextCheckpoint| <
\* 15, nextCheckpointId is the optimalBoostCheckpointId and boostUsed is
\* false; in that case boostUsed is set to true.
C4_BoostIffEligible ==
    [][ pc = "thrust" =>
          /\ (myPod1'.thrust = Str("BOOST")) <=> BoostEligible(myPod1)
          /\ BoostEligible(myPod1) => myPod1'.boostUsed = TRUE ]_vars

\* a boost returned at a bearing of 14 degrees
C4_Witness ==
    /\ pc = "thrustDone"
    /\ myPod1.thrust = Str("BOOST")
    /\ myPod1.boostUsed
    /\ Abs(myPod1.angleNextCheckpoint) = 14

\* C5: for a pod that is not boost-eligible and has |bearing| < 90,
\* calculateThrust returns round(100 * (1 - |bearing| / 90) * b), where
\* b = distance / 1200 when the distance to the target is < 1200, else 1.
C5_ThrustFormula ==
    [][ (pc = "thrust" /\ ~BoostEligible(myPod1)
         /\ Abs(myPod1.angleNextCheckpoint) < 90) =>
          LET bearing == Abs(myPod1.angleNextCheckpoint)
              d == myPod1.distanceNextCheckpoint
              \* 100 * (1 - bearing / 90) * b = num / (90 * 1200)
              num == 100 * (90 - bearing) * (IF d < 1200 THEN d ELSE 1200)
          IN  /\ myPod1'.thrust.type = "number"
              /\ IsRounded(myPod1'.thrust.num, num, 90 * 1200) ]_vars

\* both attenuations at work: bearing 45, distance 600, thrust 25
C5_Witness ==
    /\ pc = "thrustDone"
    /\ Abs(myPod1.angleNextCheckpoint) = 45
    /\ myPod1.distanceNextCheckpoint = 600
    /\ myPod1.thrust = Num(25)

\* C6: for a pod that is not boost-eligible and has |bearing| >= 90, the
\* number returned by calculateThrust is the value of the linear falloff at
\* its 90-degree boundary, 0, at any distance to the target.
C6_Original ==
    (pc = "thrustDone" /\ myPod1.thrust.type = "number"
     /\ Abs(myPod1.angleNextCheckpoint) >= 90) => myPod1.thrust.num = 0

\* the pod of the scenario after the call: at (0,0), at rest, heading 0,
\* target checkpoint (1000,0), not boost-eligible (a number was returned)
ScenarioPod ==
    /\ pc = "thrustDone"
    /\ myPod1.posX = 0 /\ myPod1.posY = 0
    /\ myPod1.speedX = 0 /\ myPod1.speedY = 0
    /\ myPod1.angle = 0
    /\ myPod1.nextCheckpointX = 1000 /\ myPod1.nextCheckpointY = 0
    /\ myPod1.thrust.type = "number"

\* C7 as stated: the pod of the scenario gets bearing 0 and thrust 100.
C7_Original ==
    ScenarioPod =>
        myPod1.angleNextCheckpoint = 0 /\ myPod1.thrust = Num(100)

\* C7 amended: the pod of the scenario gets bearing 0 and thrust 83: the
\* distance 1000 is below 1200, so the braking attenuation 1000 / 1200
\* applies; the bearing attenuation does not reduce the thrust.
C7_ScenarioThrust83 ==
    ScenarioPod =>
        myPod1.angleNextCheckpoint = 0 /\ myPod1.thrust = Num(83)

C7_Witness == ScenarioPod /\ myPod1.distanceNextCheckpoint = 1000

----------------------------------------------------------------------------
(* nextAction: claim C2 (SpecAction) *)

\* a command: an integer 0..100, or BOOST, or SHIELD
IsCommand(thrust) ==
    \/ thrust.type = "number" /\ thrust.num \in 0..100
    \/ thrust.type = "string" /\ thrust.str \in {"BOOST", "SHIELD"}

\* C2: for every owned pod, the command returned by nextAction is an integer
\* n with 0 <= n <= 100, or BOOST, or SHIELD, and never another value.
C2_CommandRange ==
    /\ pc \in {"action2", "log1", "log2", "input"}
          => IsCommand(myPod1Action.thrust)
    /\ pc \in {"log1", "log2", "input"} => IsCommand(myPod2Action.thrust)

\* the three kinds of command are all returned: a number for pod 1 at a
\* bearing of 90 degrees or more, SHIELD for pod 2
C2_Witness ==
    /\ pc = "log1"
    /\ myPod1Action.thrust.type = "number"
    /\ Abs(myPod1.angleNextCheckpoint) >= 90
    /\ myPod1.distanceNextCheckpoint < 1200
    /\ myPod2Action.thrust = Str("SHIELD")

----------------------------------------------------------------------------
(* The course: claims C8, C9, C10 (SpecGame) *)

\* the squared Euclidean length of the edge from checkpoint i to the next
EdgeSq(i) ==
    LET a == game.checkpoints[i]
        b == game.checkpoints[(i + 1) % game.checkpointCount]
    IN  (b[1] - a[1]) * (b[1] - a[1]) + (b[2] - a[2]) * (b[2] - a[2])

Edges == 0..(game.checkpointCount - 1)

\* the course of the scenario: (0,0), (10000,0), (10000,5000)
ScenarioCourse ==
    /\ game.checkpointCount = 3
    /\ game.checkpoints[0] = <<0, 0>>
    /\ game.checkpoints[1] = <<10000, 0>>
    /\ game.checkpoints[2] = <<10000, 5000>>

\* C8: for every ring of N >= 1 checkpoints, optimalBoostCheckpointId is
\* (i + 1) mod N for the smallest index i whose edge i -> (i+1) mod N has
\* the maximum length among the N edges, the closing edge included.
C8_ArgMaxPlusOne ==
    game.checkpointCount >= 1 =>
        \E i \in Edges :
            /\ \A j \in Edges : EdgeSq(j) <= EdgeSq(i)
            /\ \A j \in Edges : j < i => EdgeSq(j) < EdgeSq(i)
            /\ game.optimalBoostCheckpointId = (i + 1) % game.checkpointCount

\* a ring of three whose first two edges tie for the maximum
C8_Witness ==
    /\ game.checkpointCount = 3
    /\ EdgeSq(0) = EdgeSq(1)
    /\ EdgeSq(2) < EdgeSq(0)
    /\ game.optimalBoostCheckpointId = 1

\* C9 as stated: the course (0,0), (10000,0), (10000,5000) has
\* optimalBoostCheckpointId 1.
C9_Original == ScenarioCourse => game.optimalBoostCheckpointId = 1

\* C9 amended: on that course the closing edge (10000,5000) -> (0,0) is the
\* longest and optimalBoostCheckpointId is 0.
C9_ScenarioIsZero ==
    ScenarioCourse =>
        /\ EdgeSq(2) > EdgeSq(0)
        /\ EdgeSq(2) > EdgeSq(1)
        /\ game.optimalBoostCheckpointId = 0

C9_Witness == ScenarioCourse /\ pc = "input"

----------------------------------------------------------------------------
(* The lap counter: claim C11 (Spec) *)

\* the pod record next keeps the lap rule with respect to the record pod:
\* currentLap is one more when the target checkpoint id goes from N-1 to 0,
\* and the same otherwise
LapRule(pod, next) ==
    next.currentLap =
        pod.currentLap
        + (IF /\ pod.nextCheckpointId = game.checkpointCount - 1
              /\ next.nextCheckpointId = 0
           THEN 1 ELSE 0)

\* C11: for every pod, currentLap increments by one exactly in the ticks
\* where the target checkpoint id of the pod changes from N-1 to 0, and in
\* no other tick.
C11_Original ==
    [][ /\ LapRule(myPod1, myPod1')
        /\ LapRule(myPod2, myPod2')
        /\ LapRule(opponentPod1, opponentPod1')
        /\ LapRule(opponentPod2, opponentPod2') ]_vars

----------------------------------------------------------------------------
(* The bearing: claims C12, C13 (SpecThrust) *)

\* the pod is not on its target checkpoint
NonDegenerate(pod) ==
    pod.posX # pod.nextCheckpointX \/ pod.posY # pod.nextCheckpointY

C13_Original ==
    ~NonDegenerate(myPod1) => myPod1.angleNextCheckpoint = 0

----------------------------------------------------------------------------
(* The aim point: claim C14 (SpecAction) *)

\* the closing-distance test of nextAction on the pod after the call: the
\* checkpoint is nearer to the pod than to the drift target
ClosingTestFires(pod) ==
    LET q == nextAction_Target(pod)
    IN  pod.distanceNextCheckpoint * pod.distanceNextCheckpoint
            < distanceBetweenSq(q.targetX, q.targetY,
                                pod.nextCheckpointX, pod.nextCheckpointY)

\* the aim point of the action is the checkpoint less 4 times the velocity
\* of the line t of this tick above speed 100, and the checkpoint otherwise
AimRule(pod, t, action) ==
    IF pod.speed > 100
    THEN /\ action.targetX = pod.nextCheckpointX - 4 * t.vx
         /\ action.targetY = pod.nextCheckpointY - 4 * t.vy
    ELSE /\ action.targetX = pod.nextCheckpointX
         /\ action.targetY = pod.nextCheckpointY

\* C14: for an owned pod whose closing-distance test does not fire, and for
\* every state of the other three pods, the aim point returned by nextAction
\* is the target checkpoint less 4 times the velocity of this tick's
\* telemetry when speed > 100, and the target checkpoint otherwise.
C14_Original ==
    /\ (pc \in {"action2", "log1", "log2"} /\ ~ClosingTestFires(myPod1))
           => AimRule(myPod1, podData.myPod1, myPod1Action)
    /\ (pc \in {"log1", "log2"} /\ ~ClosingTestFires(myPod2))
           => AimRule(myPod2, podData.myPod2, myPod2Action)

----------------------------------------------------------------------------
(* Collision resolution: claim C15 (SpecCollision) *)

\* C15: updateVelocityAfterCollisionWithAngle gives each pod, along the line
\* through the two centres, the along-axis velocity component the other pod
\* had before the call, and leaves the perpendicular component of each pod
\* unchanged; on a horizontal line (a,p) and (-a,q) become (-a,p) and (a,q).
C15_SwapAlongAxis ==
    pc = "collisionDone" =>
        LET t1 == podData.myPod1
            t3 == podData.opponentPod1
        IN  IF myPod1.posY = opponentPod1.posY
            THEN /\ myPod1.speedX = t3.vx /\ myPod1.speedY = t1.vy
                 /\ opponentPod1.speedX = t1.vx /\ opponentPod1.speedY = t3.vy
            ELSE /\ myPod1.speedY = t3.vy /\ myPod1.speedX = t1.vx
                 /\ opponentPod1.speedY = t1.vy /\ opponentPod1.speedX = t3.vx

\* two pods on a horizontal line with (200,5) and (-200,0): (-200,5), (200,0)
C15_Witness ==
    /\ pc = "collisionDone"
    /\ myPod1.posY = opponentPod1.posY
    /\ podData.myPod1.vx = 200 /\ podData.myPod1.vy = 5
    /\ podData.opponentPod1.vx = -200 /\ podData.opponentPod1.vy = 0
    /\ myPod1.speedX = -200 /\ myPod1.speedY = 5
    /\ opponentPod1.speedX = 200 /\ opponentPod1.speedY = 0

----------------------------------------------------------------------------
(* The shield: claims C16, C17 (SpecAction) *)

\* the kinematics of a line of telemetry, as detectCollision reads a pod
TelemetryPod(t) == [posX |-> t.x, posY |-> t.y, speedX |-> t.vx,
                    speedY |-> t.vy]

\* a near-head-on heading difference and a high difference of speeds, as the
\* shield policy measures them
HeadOnFast(pod, opponentPod) ==
    /\ Abs(pod.angle - opponentPod.angle) > COLLISION_ANGLE_THRESHOLD
    /\ Abs(pod.speed - opponentPod.speed) > COLLISION_SPEED_THRESHOLD

\* the collision predictor flags the pod with one of the two opponents, with
\* a near-head-on heading difference and a high relative speed
ShieldCase(pod, o1, o2) ==
    \/ detectCollision(pod, o1) /\ HeadOnFast(pod, o1)
    \/ detectCollision(pod, o2) /\ HeadOnFast(pod, o2)

\* C16: in a tick where the collision predictor flags an owned pod with an
\* opponent (projected distance within 2 x COLLISION_RADIUS_UNITS) with a
\* heading difference above the angle threshold and a relative speed above
\* the speed threshold, the command returned for that pod is SHIELD and its
\* shieldUsed flag is true afterwards.
C16_ShieldOnCollision ==
    [][ /\ (pc = "action1" /\ pc' = "action2"
            /\ ShieldCase(myPod1, opponentPod1, opponentPod2))
               => /\ myPod1Action'.thrust = Str("SHIELD")
                  /\ myPod1'.shieldUsed
        /\ (pc = "action2" /\ pc' = "log1"
            /\ ShieldCase(myPod2, opponentPod1, opponentPod2))
               => /\ myPod2Action'.thrust = Str("SHIELD")
                  /\ myPod2'.shieldUsed ]_vars

\* pod 1 at speed 100 heading 0 and opponent 1 at speed 200 heading 180 are
\* projected 445 apart by the telemetry of the tick: SHIELD, flag set
C16_Witness ==
    /\ pc = "action2"
    /\ detectCollision(TelemetryPod(podData.myPod1),
                       TelemetryPod(podData.opponentPod1))
    /\ HeadOnFast(myPod1, opponentPod1)
    /\ myPod1Action.thrust = Str("SHIELD")
    /\ myPod1.shieldUsed

\* the collision predictor flags the pod with the other owned pod and with
\* neither opponent
AllyOnly(pod, myOtherPod, o1, o2) ==
    /\ detectCollision(pod, myOtherPod)
    /\ ~detectCollision(pod, o1)
    /\ ~detectCollision(pod, o2)

\* C17: in a tick where an owned pod is predicted to collide with the other
\* owned pod but with neither opponent, the command returned is the number
\* or the BOOST of calculateThrust, never SHIELD, and shieldUsed is not
\* changed.
C17_TeammateNeverShields ==
    [][ /\ (pc = "action1" /\ pc' = "action2"
            /\ AllyOnly(myPod1, myPod2, opponentPod1, opponentPod2))
               => /\ myPod1Action'.thrust = calculateThrust(myPod1, game).result
                  /\ myPod1Action'.thrust # Str("SHIELD")
                  /\ myPod1'.shieldUsed = myPod1.shieldUsed
        /\ (pc = "action2" /\ pc' = "log1"
            /\ AllyOnly(myPod2, myPod1, opponentPod1, opponentPod2))
               => /\ myPod2Action'.thrust = calculateThrust(myPod2, game).result
                  /\ myPod2Action'.thrust # Str("SHIELD")
                  /\ myPod2'.shieldUsed = myPod2.shieldUsed ]_vars

\* pod 1 is projected within 800 of pod 2 and of no opponent, by the
\* telemetry of the tick, and gets a number; its shield stays unused
C17_Witness ==
    /\ pc = "action2"
    /\ AllyOnly(TelemetryPod(podData.myPod1), TelemetryPod(podData.myPod2),
                TelemetryPod(podData.opponentPod1),
                TelemetryPod(podData.opponentPod2))
    /\ myPod1Action.thrust.type = "number"
    /\ ~myPod1.shieldUsed

----------------------------------------------------------------------------
(* The boost flag: claim C18 (Spec) *)

\* C18: for every pod, boostUsed changes from false to true at most once and
\* never changes back to false in any later state, the updatePod of every
\* tick, which rebuilds the pod record, included.
C18_BoostUsedNeverReset ==
    [][ /\ myPod1.boostUsed => myPod1'.boostUsed
        /\ myPod2.boostUsed => myPod2'.boostUsed
        /\ opponentPod1.boostUsed => opponentPod1'.boostUsed
        /\ opponentPod2.boostUsed => opponentPod2'.boostUsed ]_vars

\* both owned pods have boosted in an earlier tick, and the records that
\* updatePod has just rebuilt from the next lines still carry the flags
C18_Witness ==
    /\ pc = "action1"
    /\ Len(io) = 4
    /\ boostEmitted = [i \in 1..2 |-> 1]
    /\ myPod1.boostUsed
    /\ myPod2.boostUsed

----------------------------------------------------------------------------
(* The decisions and the pod records: claims C19 (Spec), C20 (SpecAction) *)

\* position and velocity of the record are those of the line t
KinematicsOf(pod, t) ==
    /\ pod.posX = t.x /\ pod.posY = t.y
    /\ pod.speedX = t.vx /\ pod.speedY = t.vy

\* C19: during a tick, after updatePod has run, computing the two decisions
\* leaves posX, posY, speedX and speedY of all four pod records equal to the
\* values of the telemetry of the tick.
C19_Original ==
    pc \in {"action1", "action2", "log1", "log2"} =>
        /\ KinematicsOf(myPod1, podData.myPod1)
        /\ KinematicsOf(myPod2, podData.myPod2)
        /\ KinematicsOf(opponentPod1, podData.opponentPod1)
        /\ KinematicsOf(opponentPod2, podData.opponentPod2)

\* C20: for every state updatePod leaves, computing the decision of pod 1
\* and then that of pod 2 yields the same two actions (aim point, command)
\* as computing the decision of pod 2 and then that of pod 1.
C20_Original ==
    pc = "action1" =>
        \A a \in {nextAction(myPod1, myPod2, opponentPod1, opponentPod2,
                             game)} :
        \A c \in {nextAction(myPod2, myPod1, opponentPod1, opponentPod2,
                             game)} :
            /\ a.action = nextAction(myPod1, c.pod, c.opponentPod1,
                                     c.opponentPod2, game).action
            /\ c.action = nextAction(myPod2, a.pod, a.opponentPod1,
                                     a.opponentPod2, game).action

----------------------------------------------------------------------------
(* The shield policy: claim C21 (SpecAction) *)

\* collisionBenefitScore(myPod, otherPod, game) < -10 cannot be excluded: the
\* score is the distance of myPod to its checkpoint less the distance of
\* myPod.pos + 0.85 * (myPod.velocity + otherPod.velocity) to it; the second
\* distance is at most |dX| + |dY|, so the score is at least -10 when
\* |dX| + |dY| <= distance + 10 (all lengths scaled by FRICTION_DEN)
MayPushBack(myPod, otherPod) ==
    LET dX == FRICTION_DEN * (myPod.nextCheckpointX - myPod.posX)
              - FRICTION_NUM * (myPod.speedX + otherPod.speedX)
        dY == FRICTION_DEN * (myPod.nextCheckpointY - myPod.posY)
              - FRICTION_NUM * (myPod.speedY + otherPod.speedY)
    IN  Abs(dX) + Abs(dY) > FRICTION_DEN * (myPod.distanceNextCheckpoint + 10)

\* a predicted collision with the opponent that meets the shield policy, or
\* whose benefit score may be below the decrement threshold
ShieldPolicyMet(pod, opponentPod) ==
    /\ detectCollision(pod, opponentPod)
    /\ \/ HeadOnFast(pod, opponentPod)
       \/ MayPushBack(opponentPod, pod)
       \/ MayPushBack(pod, opponentPod)

\* C21: SHIELD is returned for an owned pod only when a predicted collision
\* with an opponent meets the shield policy (heading difference above the
\* angle threshold and relative speed above the speed threshold, or a
\* benefit score below the decrement threshold); a glancing collision that
\* pushes no pod backward leaves the number or the BOOST of calculateThrust.
C21_Original ==
    [][ /\ (pc = "action1" /\ pc' = "action2"
            /\ myPod1Action'.thrust = Str("SHIELD"))
               => \/ ShieldPolicyMet(myPod1, opponentPod1)
                  \/ ShieldPolicyMet(myPod1, opponentPod2)
        /\ (pc = "action2" /\ pc' = "log1"
            /\ myPod2Action'.thrust = Str("SHIELD"))
               => \/ ShieldPolicyMet(myPod2, opponentPod1)
                  \/ ShieldPolicyMet(myPod2, opponentPod2) ]_vars

----------------------------------------------------------------------------
(* The collision predictor: claim C22 (SpecCollision) *)

\* 20 times the projected position pos + 0.85 * velocity of a pod
Projected(pod) == [x |-> 20 * pod.posX + 17 * pod.speedX,
                   y |-> 20 * pod.posY + 17 * pod.speedY]

----------------------------------------------------------------------------
(* Passing a checkpoint: claims C23, C24 (SpecAction) *)

\* the aim point of the action is the drift-compensated point of the
\* checkpoint after the target of the pod: that checkpoint less 4 times the
\* velocity of the line t above speed 100
AimAtNextRule(pod, t, action) ==
    LET n == (pod.nextCheckpointId + 1) % game.checkpointCount
        drift == IF pod.speed > MINIMUM_DRIFT_SPEED_UNITS
                 THEN DRIFT_INTENSITY_FACTOR ELSE 0
    IN  /\ action.targetX = game.checkpoints[n][1] - drift * t.vx
        /\ action.targetY = game.checkpoints[n][2] - drift * t.vy

\* C23: when the closing-distance test fires for an owned pod, the aim point
\* returned is the drift-compensated aim point re-evaluated against
\* checkpoint (nextCheckpointId + 1) mod checkpointCount: its position less
\* 4 times the velocity when speed > 100.
C23_Original ==
    /\ (pc \in {"action2", "log1", "log2"} /\ ClosingTestFires(myPod1))
           => AimAtNextRule(myPod1, podData.myPod1, myPod1Action)
    /\ (pc \in {"log1", "log2"} /\ ClosingTestFires(myPod2))
           => AimAtNextRule(myPod2, podData.myPod2, myPod2Action)

\* C24: when the closing-distance test fires for an owned pod in nextAction,
\* pod.nextCheckpointId is (old nextCheckpointId + 1) mod checkpointCount
\* after the call.
C24_Original ==
    [][ /\ (pc = "action1" /\ pc' = "action2" /\ ClosingTestFires(myPod1'))
               => myPod1'.nextCheckpointId
                    = (myPod1.nextCheckpointId + 1) % game.checkpointCount
        /\ (pc = "action2" /\ pc' = "log1" /\ ClosingTestFires(myPod2'))
               => myPod2'.nextCheckpointId
                    = (myPod2.nextCheckpointId + 1) % game.checkpointCount
      ]_vars

----------------------------------------------------------------------------
(* The derived speed: claim C27 (SpecAction) *)

\* the square of the magnitude of the velocity of a line of telemetry
SpeedSq(t) == t.vx * t.vx + t.vy * t.vy

\* C27 as stated: speed is the exact magnitude of the telemetry velocity, so
\* the drift branch (speed > 100) is taken exactly when
\* vx * vx + vy * vy > 100 * 100; it is taken for velocity (100,5).
C27_Original ==
    pc \in {"action2", "log1", "log2"} =>
        /\ myPod1.speed * myPod1.speed = SpeedSq(podData.myPod1)
        /\ myPod1.speed > 100 <=> SpeedSq(podData.myPod1) > 100 * 100

\* C27 amended: speed is the magnitude of the telemetry velocity rounded to
\* the nearest integer, so the drift branch is taken exactly when the
\* magnitude is at least 100.5, 4 * (vx * vx + vy * vy) >= 201 * 201; it is
\* not taken for velocity (100,5), whose aim point is the checkpoint.
C27_RoundedSpeed ==
    pc \in {"action2", "log1", "log2"} =>
        LET n == SpeedSq(podData.myPod1)
            drift == 4 * n >= 201 * 201
        IN  /\ \/ myPod1.speed = 0
               \/ (2 * myPod1.speed - 1) * (2 * myPod1.speed - 1) <= 4 * n
            /\ 4 * n < (2 * myPod1.speed + 1) * (2 * myPod1.speed + 1)
            /\ myPod1.speed > 100 <=> drift
            /\ ~ClosingTestFires(myPod1) =>
                 /\ myPod1Action.targetX =
                      IF drift THEN myPod1.nextCheckpointX - 4 * myPod1.speedX
                      ELSE myPod1.nextCheckpointX
                 /\ myPod1Action.targetY =
                      IF drift THEN myPod1.nextCheckpointY - 4 * myPod1.speedY
                      ELSE myPod1.nextCheckpointY

\* velocity (100,5): speed 100, no drift compensation
C27_Witness ==
    /\ pc = "action2"
    /\ podData.myPod1.vx = 100 /\ podData.myPod1.vy = 5
    /\ myPod1.speed = 100
    /\ myPod1Action.targetX = myPod1.nextCheckpointX
    /\ myPod1Action.targetY = myPod1.nextCheckpointY

----------------------------------------------------------------------------
(* Boost and shield in one tick: claim C29 (SpecAction) *)

\* C29: whenever boostUsed of a pod changes from false to true during a
\* tick, the command returned for that pod in the same tick is BOOST, also
\* in ticks where a collision with an opponent is predicted.
C29_Original ==
    [][ /\ (pc = "action1" /\ pc' = "action2"
            /\ ~myPod1.boostUsed /\ myPod1'.boostUsed)
               => myPod1Action'.thrust = Str("BOOST")
        /\ (pc = "action2" /\ pc' = "log1"
            /\ ~myPod2.boostUsed /\ myPod2'.boostUsed)
               => myPod2Action'.thrust = Str("BOOST") ]_vars

----------------------------------------------------------------------------
(* The shield over the ticks: claims C25, C26 (Spec) *)

\* the collision predictor flags the pod with neither opponent
NoOpponentCollision(pod, o1, o2) ==
    ~detectCollision(pod, o1) /\ ~detectCollision(pod, o2)

\* C25: in any tick in which no collision with either opponent is predicted
\* for an owned pod, the command returned for that pod is not SHIELD,
\* whatever was returned for it in earlier ticks and whatever its shieldUsed
\* flag is.
C25_ShieldDoesNotPersist ==
    [][ /\ (pc = "action1" /\ pc' = "action2"
            /\ NoOpponentCollision(myPod1, opponentPod1, opponentPod2))
               => myPod1Action'.thrust # Str("SHIELD")
        /\ (pc = "action2" /\ pc' = "log1"
            /\ NoOpponentCollision(myPod2, opponentPod1, opponentPod2))
               => myPod2Action'.thrust # Str("SHIELD") ]_vars

\* SHIELD was written for pod 1 in an earlier tick and its flag is set; no
\* collision is predicted by the telemetry of this tick and it gets a number
C25_Witness ==
    /\ pc = "action2"
    /\ shieldEmitted[1]
    /\ myPod1.shieldUsed
    /\ NoOpponentCollision(TelemetryPod(podData.myPod1),
                           TelemetryPod(podData.opponentPod1),
                           TelemetryPod(podData.opponentPod2))
    /\ myPod1Action.thrust.type = "number"

\* C26: for every owned pod, in every state after a tick, shieldUsed is true
\* exactly when SHIELD has been written for that pod in the current or an
\* earlier tick; it never changes back to false, also when SHIELD is
\* written again in later ticks.
C26_ShieldBookkeeping ==
    /\ [](pc = "input" => /\ myPod1.shieldUsed <=> shieldEmitted[1]
                          /\ myPod2.shieldUsed <=> shieldEmitted[2])
    /\ [][ /\ myPod1.shieldUsed => myPod1'.shieldUsed
           /\ myPod2.shieldUsed => myPod2'.shieldUsed ]_vars

\* SHIELD is about to be written for pod 1 again: it was written in an
\* earlier tick, the flag was set then and is still set
C26_Witness ==
    /\ pc = "log1"
    /\ shieldEmitted[1]
    /\ myPod1Action.thrust = Str("SHIELD")
    /\ myPod1.shieldUsed
    /\ ~myPod2.shieldUsed

----------------------------------------------------------------------------
(* What a tick carries over: claims C28, C30 (Spec) *)

\* prevSpeedX and prevSpeedY of the record are the velocity of the line t
PrevSpeedOf(pod, t) == pod.prevSpeedX = t.vx /\ pod.prevSpeedY = t.vy

\* C28: at every tick t >= 2, after the update step, prevSpeedX/prevSpeedY
\* of each pod equal the velocity reported for that pod in the telemetry of
\* tick t-1, for every telemetry history.
C28_Original ==
    [][ (pc = "input" /\ pc' = "action1" /\ Len(io) = 6)
          => /\ PrevSpeedOf(myPod1', podData.myPod1)
             /\ PrevSpeedOf(myPod2', podData.myPod2)
             /\ PrevSpeedOf(opponentPod1', podData.opponentPod1)
             /\ PrevSpeedOf(opponentPod2', podData.opponentPod2) ]_vars

\* the record updatePod builds from the line t alone, with no state of an
\* earlier tick but the boostUsed flag
Fresh(pod, t, isOpponent) ==
    PodOf(t, pod.id, pod.boostUsed, FALSE, isOpponent, game)

\* C30: the two actions of a tick are a function of the four lines of the
\* tick, the course and the boostUsed flags of the two owned pods: the
\* records carried from earlier ticks yield the same two actions as records
\* built from the lines of the tick and those flags alone.
C30_FreshTelemetryOnly ==
    pc = "action1" =>
        \A a \in {nextAction(myPod1, myPod2, opponentPod1, opponentPod2,
                             game)} :
        \A f \in {nextAction(Fresh(myPod1, podData.myPod1, FALSE),
                             Fresh(myPod2, podData.myPod2, FALSE),
                             Fresh(opponentPod1, podData.opponentPod1, TRUE),
                             Fresh(opponentPod2, podData.opponentPod2, TRUE),
                             game)} :
            /\ a.action = f.action
            /\ nextAction(myPod2, a.pod, a.opponentPod1, a.opponentPod2,
                          game).action
               = nextAction(Fresh(myPod2, podData.myPod2, FALSE), f.pod,
                            f.opponentPod1, f.opponentPod2, game).action

\* a tick begins on records that differ from fresh ones: pod 1 carries a
\* SHIELD command, a set shieldUsed flag, an aim point and a previous
\* velocity that collision resolution rewrote
C30_Witness ==
    /\ pc = "action1"
    /\ myPod1.thrust = Str("SHIELD")
    /\ myPod1.shieldUsed
    /\ myPod1.prevSpeedX = -200
    /\ myPod1.targetX # 0
    /\ podData.myPod1.vx = 300
    /\ myPod1 # Fresh(myPod1, podData.myPod1, FALSE)

====
